---- MODULE Spec2Model ----
(***************************************************************************)
(* Uniform cubic B-spline trajectory in R3                                 *)
(* (include/taser/trajectories/uniform_r3_spline_trajectory.h).            *)
(*                                                                         *)
(* Scalars (the C++ type T / double) are exact rationals <<num, den>> in   *)
(* lowest terms with den > 0.  A control point is a 3-tuple of scalars.    *)
(* A pointer returned by the parameter holder is the record                *)
(* [valid, knot]: valid pointers address the stored knot with that index.  *)
(***************************************************************************)
EXTENDS Integers, Sequences, FiniteSets, TLC

\* ------------------------------------------------------------------ bounds
MaxKnots == 6
MaxHalfSteps == 9

\* ------------------------------------------------- scalar (T) arithmetic
Abs(x) == IF x < 0 THEN -x ELSE x

RECURSIVE GCD(_, _)
GCD(a, b) == IF b = 0 THEN a ELSE GCD(b, a % b)

Rat(num, den) ==
  LET s == IF den < 0 THEN -1 ELSE 1
      g == GCD(Abs(num), Abs(den))
  IN  <<(s * num) \div g, (s * den) \div g>>

R(k) == <<k, 1>>
RAdd(a, b) == Rat(a[1] * b[2] + b[1] * a[2], a[2] * b[2])
RSub(a, b) == Rat(a[1] * b[2] - b[1] * a[2], a[2] * b[2])
RMul(a, b) == Rat(a[1] * b[1], a[2] * b[2])
RInv(a) == Rat(a[2], a[1])
RFloor(a) == a[1] \div a[2]
RLess(a, b) == a[1] * b[2] < b[1] * a[2]

\* Eigen fixed-size vectors
VScale(s, v) == [k \in DOMAIN v |-> RMul(s, v[k])]
VAdd(v, w) == [k \in DOMAIN v |-> RAdd(v[k], w[k])]
Zero3 == <<R(0), R(0), R(0)>>
IdentityQ == <<R(1), R(0), R(0), R(0)>>
\* a field of a TrajectoryEvaluation that nothing has written yet
Indeterminate == <<>>

\* ------------------------------------------------------- evaluation flags
EvalPosition == 1
EvalVelocity == 2
EvalAcceleration == 4
EvalOrientation == 8
EvalAngularVelocity == 16
AllFlags == 0 .. 31

\* faulty variant: a magnitude test instead of the bit test
HasFlag_AtLeast(flags, f) == flags >= f

\* (flags & f) != 0 for a single-bit f
HasFlag(flags, f) == (flags \div f) % 2 = 1

\* ---------------------------------------------------------- spline basics
\* cubic B-spline basis matrix, row j = power of u, column k = active knot
M == << <<Rat(1, 6),  Rat(4, 6),  Rat(1, 6),  R(0)>>,
        <<Rat(-3, 6), R(0),       Rat(3, 6),  R(0)>>,
        <<Rat(3, 6),  Rat(-6, 6), Rat(3, 6),  R(0)>>,
        <<Rat(-1, 6), Rat(3, 6),  Rat(-3, 6), Rat(1, 6)>> >>

\* row vector times M
RowTimesM(U) ==
  [k \in 1 .. 4 |->
     RAdd(RAdd(RMul(U[1], M[1][k]), RMul(U[2], M[2][k])),
          RAdd(RMul(U[3], M[3][k]), RMul(U[4], M[4][k])))]

\* i0 = floor((t - t0)/dt), u = (t - t0)/dt - i0
CalculateIndexAndInterpolationAmount(meta, t) ==
  LET s == RMul(RSub(t, meta.t0), RInv(meta.dt))
      i == RFloor(s)
  IN  [i0 |-> i, u |-> RSub(s, R(i))]

NumKnots(view) == view.meta.n

\* holder_->Parameter(i): the holder does no bounds check; an index outside
\* the storage yields a pointer to no knot
Parameter(holder, i) ==
  [valid |-> (0 <= i /\ i < Len(holder)), knot |-> i]

\* holder_->AddParameter(3): new zero-filled block at the end, returns index
AddParameter(holder) == [holder |-> Append(holder, Zero3), index |-> Len(holder)]

\* a view shares the trajectory's meta and holder
View(meta, holder) == [meta |-> meta, holder |-> holder]

\* ------------------------------------------------- UniformR3SplineView
\* ControlPoint(i): a map onto the holder's block i
ControlPoint(view, i) == view.holder[i + 1]

\* (N - 4) in size_t: the difference wraps around below zero; a wrapped value
\* stands for 2^w + v
SizeT(x) == [wrapped |-> x < 0, v |-> x]
SizeTGreater(a, b) ==
  \/ a.wrapped /\ ~b.wrapped
  \/ a.wrapped = b.wrapped /\ a.v > b.v

\* faulty variant: the last window admitted one knot too far
OutOfRange_OneTooFar(N, i0) ==
  \/ N < 4
  \/ i0 < 0
  \/ SizeTGreater(SizeT(i0), SizeT(N - 3))

\* (N < 4) || (i0 < 0) || (i0 > (N - 4)), i0 an int and N a size_t
OutOfRange(N, i0) ==
  \/ N < 4
  \/ i0 < 0
  \/ SizeTGreater(SizeT(i0), SizeT(N - 4))

\* faulty variant: the loop starts one knot late
WindowIndices_Late(i0) == [k \in 1 .. 4 |-> i0 + k]

\* knots the accumulation loop visits: for (int i = i0; i < i0 + 4; ++i)
WindowIndices(i0) == [k \in 1 .. 4 |-> i0 + k - 1]

\* faulty variant: the cubic term differentiated with the wrong factor
VelocityVector_WrongFactor(dt_inv, u, u2) ==
  VScale(dt_inv, <<R(0), R(1), RMul(R(2), u), RMul(R(2), u2)>>)

\* the monomial vectors of the three derivative orders
PositionVector(u, u2, u3) == <<R(1), u, u2, u3>>
VelocityVector(dt_inv, u, u2) ==
  VScale(dt_inv, <<R(0), R(1), RMul(R(2), u), RMul(R(3), u2)>>)
AccelerationVector(dt_inv, u) ==
  VScale(RMul(dt_inv, dt_inv), <<R(0), R(0), R(2), RMul(R(6), u)>>)

\* setZero(), then += B(i - i0) * ControlPoint(i) over the window
Accumulate(view, i0, B) ==
  LET w == WindowIndices(i0)
      term(k) == VScale(B[k], ControlPoint(view, w[k]))
  IN  VAdd(VAdd(VAdd(VAdd(Zero3, term(1)), term(2)), term(3)), term(4))

\* std::make_unique<TrajectoryEvaluation<T>>(): nothing written yet
NewResult ==
  [position |-> Indeterminate, velocity |-> Indeterminate,
   acceleration |-> Indeterminate, orientation |-> Indeterminate,
   angular_velocity |-> Indeterminate]

\* the body of Evaluate after the range check, for a window i0 and a local
\* parameter u
Blend(view, i0, u, flags) ==
  LET dt_inv == RInv(view.meta.dt)
      u2 == IF HasFlag(flags, EvalPosition) \/ HasFlag(flags, EvalVelocity)
            THEN RMul(u, u) ELSE Indeterminate
      u3 == IF HasFlag(flags, EvalPosition)
            THEN RMul(RMul(u, u), u) ELSE Indeterminate
      Bp == RowTimesM(PositionVector(u, u2, u3))
      Bv == RowTimesM(VelocityVector(dt_inv, u, u2))
      Ba == RowTimesM(AccelerationVector(dt_inv, u))
  IN  [position |-> IF HasFlag(flags, EvalPosition)
                    THEN Accumulate(view, i0, Bp) ELSE NewResult.position,
       velocity |-> IF HasFlag(flags, EvalVelocity)
                    THEN Accumulate(view, i0, Bv) ELSE NewResult.velocity,
       acceleration |-> IF HasFlag(flags, EvalAcceleration)
                        THEN Accumulate(view, i0, Ba)
                        ELSE NewResult.acceleration,
       orientation |-> IF HasFlag(flags, EvalOrientation)
                       THEN IdentityQ ELSE NewResult.orientation,
       angular_velocity |-> IF HasFlag(flags, EvalAngularVelocity)
                            THEN Zero3 ELSE NewResult.angular_velocity]

\* Result Evaluate(T t, int flags) const.  status "range_error" is the thrown
\* std::range_error; "undefined" is a window that leaves the storage (the
\* holder does not check the index); reads lists the knots the loop visited.
Evaluate(view, t, flags) ==
  LET ix == CalculateIndexAndInterpolationAmount(view.meta, t)
      N == NumKnots(view)
      w == WindowIndices(ix.i0)
  IN  IF OutOfRange(N, ix.i0)
      THEN [status |-> "range_error", i0 |-> ix.i0, u |-> ix.u,
            reads |-> <<>>, result |-> NewResult]
      ELSE IF \E k \in 1 .. 4 : ~Parameter(view.holder, w[k]).valid
      THEN [status |-> "undefined", i0 |-> ix.i0, u |-> ix.u,
            reads |-> w, result |-> NewResult]
      ELSE [status |-> "ok", i0 |-> ix.i0, u |-> ix.u,
            reads |-> w, result |-> Blend(view, ix.i0, ix.u, flags)]

\* ------------------------------------------- UniformR3SplineTrajectory
VARIABLES meta_, holder_, pc, ret
vars == <<meta_, holder_, pc, ret>>

\* number of doubles of one control point block
BlockSize == 3

AsView == View(meta_, holder_)

\* faulty variant: the exposure starts one knot late
ExposedIndices_Late(i1, i2) ==
  IF i2 + 4 > i1 + 1 THEN [k \in 1 .. (i2 + 3 - i1) |-> i1 + k] ELSE <<>>

\* knots the exposure loop visits: for (int i = i1; i < i2 + 4; ++i)
ExposedIndices(i1, i2) ==
  IF i2 + 4 > i1 THEN [k \in 1 .. (i2 + 4 - i1) |-> i1 + k - 1] ELSE <<>>

\* meta.n = (i2 + 4 - i1 + 1)
ExposedCount(i1, i2) == i2 + 4 - i1 + 1

\* meta.t0 = t0() + i1 * dt()
ExposedT0(meta, i1) == RAdd(meta.t0, RMul(R(i1), meta.dt))

\* faulty variant: only an empty list is rejected
MultiTimes_EmptyOnly(times) == Len(times) < 1

\* if (times.size() != 1) throw std::length_error
MultiTimes(times) == Len(times) # 1

\* position of the first exposed index that is not a stored knot, or one past
\* the end
FirstWild(holder, idx) ==
  IF \E k \in 1 .. Len(idx) : ~Parameter(holder, idx[k]).valid
  THEN CHOOSE k \in 1 .. Len(idx) :
         /\ ~Parameter(holder, idx[k]).valid
         /\ \A j \in 1 .. (k - 1) : Parameter(holder, idx[j]).valid
  ELSE Len(idx) + 1

\* void AddToProblem(problem, times, meta, parameter_blocks, parameter_sizes)
\* out is the caller's [meta, parameter_blocks, parameter_sizes, problem].
\* Reading the holder outside its storage is undefined: it either yields a
\* pointer to no knot and the call goes on, or (faults) the read traps and the
\* call ends there.
AddToProblem(meta, holder, times, out, faults) ==
  IF MultiTimes(times)
  THEN [status |-> "length_error", i1 |-> 0, i2 |-> 0, out |-> out]
  ELSE
    LET tt == times[Len(times)]
        i1 == CalculateIndexAndInterpolationAmount(meta, tt[1]).i0
        i2 == CalculateIndexAndInterpolationAmount(meta, tt[2]).i0
        idx == ExposedIndices(i1, i2)
        stop == FirstWild(holder, idx)
        done == IF faults THEN stop - 1 ELSE Len(idx)
        ptrs == [k \in 1 .. done |-> Parameter(holder, idx[k])]
        sizes == [k \in 1 .. done |-> BlockSize]
        blocks == [k \in 1 .. done |-> <<ptrs[k], BlockSize>>]
        pushed == [meta |-> out.meta,
                   parameter_blocks |-> out.parameter_blocks \o ptrs,
                   parameter_sizes |-> out.parameter_sizes \o sizes,
                   problem |-> out.problem \o blocks]
    IN  IF faults /\ stop <= Len(idx)
        THEN [status |-> "fault", i1 |-> i1, i2 |-> i2,
              out |-> [pushed EXCEPT !.meta = out.meta]]
        ELSE [status |-> "ok", i1 |-> i1, i2 |-> i2,
              out |-> [pushed EXCEPT !.meta =
                         [dt |-> meta.dt, n |-> ExposedCount(i1, i2),
                          t0 |-> ExposedT0(meta, i1)]]]

\* ----------------------------------------------------------- inputs
CPValues == {<<R(1), R(0), R(-2)>>, <<R(0), R(3), R(1)>>}
Times == {Rat(k, 2) : k \in -2 .. MaxHalfSteps}
Intervals == Times \X Times
\* (t0, dt) a trajectory is constructed with
Constructions == {[t0 |-> R(0), dt |-> R(1)], [t0 |-> Rat(1, 2), dt |-> Rat(3, 2)]}
\* a block of another object already in the caller's lists
ForeignBlock == [valid |-> FALSE, knot |-> -1000]
\* the caller's output arguments before the call: fresh, or used before
Outputs ==
  {[meta |-> [dt |-> R(1), n |-> 0, t0 |-> R(0)],
    parameter_blocks |-> <<>>, parameter_sizes |-> <<>>, problem |-> <<>>],
   [meta |-> [dt |-> R(5), n |-> 9, t0 |-> R(7)],
    parameter_blocks |-> <<ForeignBlock>>, parameter_sizes |-> <<4>>,
    problem |-> <<<<ForeignBlock, 4>>>>]}
TimesInputs ==
  {<<>>} \cup {<<iv>> : iv \in Intervals}
         \cup {<<iv, <<R(0), R(1)>>>> : iv \in Intervals}

\* ----------------------------------------------------------- operations
\* faulty variant: the new value lands in the first block
StoreKnot_First(holder, cp) ==
  LET a == AddParameter(holder)
  IN  [a.holder EXCEPT ![1] = cp]

\* auto i = holder_->AddParameter(3); MutableControlPoint(i) = cp
StoreKnot(holder, cp) ==
  LET a == AddParameter(holder)
  IN  [a.holder EXCEPT ![a.index + 1] = cp]

\* this->meta_.n += 1
CountKnot(meta) == [meta EXCEPT !.n = @ + 1]

\* a trajectory is constructed with no knots
Init ==
  /\ \E c \in Constructions : meta_ = [t0 |-> c.t0, dt |-> c.dt, n |-> 0]
  /\ holder_ = <<>>
  /\ pc = "call"
  /\ ret = [op |-> "none"]

AppendKnot(cp) ==
  /\ pc = "call"
  /\ Len(holder_) < MaxKnots
  /\ holder_' = StoreKnot(holder_, cp)
  /\ meta_' = CountKnot(meta_)
  /\ ret' = [op |-> "AppendKnot", cp |-> cp]
  /\ pc' = "ret"

\* ControlPoint(i) = v, the caller keeping i inside [0, n)
WriteControlPoint(i, v) ==
  /\ pc = "call"
  /\ 0 <= i /\ i < meta_.n
  /\ holder_' = [holder_ EXCEPT ![i + 1] = v]
  /\ ret' = [op |-> "WriteControlPoint", i |-> i, cp |-> v]
  /\ pc' = "ret"
  /\ UNCHANGED meta_

CallEvaluate(t, flags) ==
  /\ pc = "call"
  /\ ret' = [op |-> "Evaluate", t |-> t, flags |-> flags,
             out |-> Evaluate(AsView, t, flags)]
  /\ pc' = "ret"
  /\ UNCHANGED <<meta_, holder_>>

CallAddToProblem(times, out, faults) ==
  /\ pc = "call"
  /\ ret' = [op |-> "AddToProblem", times |-> times, before |-> out,
             call |-> AddToProblem(meta_, holder_, times, out, faults)]
  /\ pc' = "ret"
  /\ UNCHANGED <<meta_, holder_>>

\* the caller is done with what the call returned
Return ==
  /\ pc = "ret"
  /\ pc' = "call"
  /\ ret' = [op |-> "none"]
  /\ UNCHANGED <<meta_, holder_>>

Next ==
  \/ \E cp \in CPValues : AppendKnot(cp)
  \/ \E i \in 0 .. (MaxKnots - 1), v \in CPValues : WriteControlPoint(i, v)
  \/ \E t \in Times, flags \in AllFlags : CallEvaluate(t, flags)
  \/ \E times \in TimesInputs, out \in Outputs, faults \in BOOLEAN :
       CallAddToProblem(times, out, faults)
  \/ Return

Spec == Init /\ [][Next]_vars

\* ------------------------------------------------------------ properties
\* the knot interval holding t, stated without the division:
\* t0 + i*dt <= t < t0 + (i+1)*dt
KnotIntervalOf(meta, t) ==
  CHOOSE i \in -(MaxHalfSteps + 4) .. (MaxHalfSteps + 4) :
    /\ ~RLess(t, RAdd(meta.t0, RMul(R(i), meta.dt)))
    /\ RLess(t, RAdd(meta.t0, RMul(R(i + 1), meta.dt)))

\* C1: Evaluate(t, flags) throws the range error exactly when n < 4 or
\* i0 < 0 or i0 > n - 4 with i0 = floor((t - t0)/dt); for every other (t, n),
\* whatever the flags, it returns a result computed from the window that
\* starts at that very i0 (no clamping, no extrapolation).
C1_EvaluateRangeCheck ==
  ret.op = "Evaluate" =>
    LET i0 == KnotIntervalOf(meta_, ret.t)
        n == meta_.n
        outside == n < 4 \/ i0 < 0 \/ i0 > n - 4
    IN  /\ (ret.out.status = "range_error") <=> outside
        /\ ~outside =>
             /\ ret.out.status = "ok"
             /\ ret.out.i0 = i0
             /\ ret.out.reads = <<i0, i0 + 1, i0 + 2, i0 + 3>>

\* an Evaluate with flags = 0 rejected past the last valid knot of a spline
\* of at least four knots, and one accepted
C1_Witness ==
  /\ ret.op = "Evaluate"
  /\ ret.flags = 0
  /\ meta_.n >= 4
  /\ ret.out.status = "range_error"
  /\ ret.out.i0 = meta_.n - 3

\* C2: on a trajectory that started empty, n equals the number of stored
\* control points; n never decreases; AppendKnot(p) raises n by exactly one,
\* leaves p readable at ControlPoint(n-1) and leaves the control points below
\* the new one as they were.
C2_AppendKnot ==
  /\ [](meta_.n = Len(holder_))
  /\ [][/\ meta_'.n >= meta_.n
        /\ (pc = "call" /\ ret'.op = "AppendKnot") =>
             /\ meta_'.n = meta_.n + 1
             /\ ControlPoint(View(meta_', holder_'), meta_'.n - 1) = ret'.cp
             /\ Len(holder_') = Len(holder_) + 1
             /\ \A i \in 0 .. (meta_.n - 1) :
                  ControlPoint(View(meta_', holder_'), i)
                    = ControlPoint(AsView, i)]_vars

\* a third knot appended behind two knots of the other value
C2_Witness ==
  /\ ret.op = "AppendKnot"
  /\ meta_.n = 3
  /\ holder_[1] # ret.cp
  /\ holder_[2] # ret.cp

\* what a call of AddToProblem appended to the caller's lists
AppendedBlocks ==
  SubSeq(ret.call.out.parameter_blocks,
         Len(ret.before.parameter_blocks) + 1,
         Len(ret.call.out.parameter_blocks))
AppendedSizes ==
  SubSeq(ret.call.out.parameter_sizes,
         Len(ret.before.parameter_sizes) + 1,
         Len(ret.call.out.parameter_sizes))
AddedToProblem ==
  SubSeq(ret.call.out.problem,
         Len(ret.before.problem) + 1, Len(ret.call.out.problem))
SingleInterval == ret.op = "AddToProblem" /\ Len(ret.times) = 1
\* a single-interval call that met stored knots only
AllExposedExist ==
  /\ SingleInterval
  /\ ret.call.status = "ok"
  /\ \A k \in 1 .. Len(AppendedBlocks) : AppendedBlocks[k].valid

\* C3: the n AddToProblem writes into the output metadata for a single
\* interval is the number of control points it exposes (entries appended to
\* the two lists, AddParameterBlock calls made).  Stated for the calls with
\* t1 <= t2 that meet stored knots only, where nothing of the outcome is
\* undefined.
C3_MetaCountsExposed ==
  (AllExposedExist /\ ~RLess(ret.times[1][2], ret.times[1][1])) =>
    /\ ret.call.out.meta.n = Len(AppendedBlocks)
    /\ ret.call.out.meta.n = Len(AppendedSizes)
    /\ ret.call.out.meta.n = Len(AddedToProblem)

\* C4: for a single interval AddToProblem exposes exactly the knots
\* i1 .. i2+3, once each and ascending, each of size 3 and each registered
\* with the problem, and sets the metadata to dt' = dt, t0' = t0 + i1*dt.
C4_ExposesKnotRange ==
  SingleInterval =>
    LET i1 == KnotIntervalOf(meta_, ret.times[1][1])
        i2 == KnotIntervalOf(meta_, ret.times[1][2])
        count == IF i2 + 3 >= i1 THEN i2 + 3 - i1 + 1 ELSE 0
    IN  /\ ret.call.status = "ok"
        /\ AppendedBlocks =
             [k \in 1 .. count |-> [valid |-> TRUE, knot |-> i1 + k - 1]]
        /\ AppendedSizes = [k \in 1 .. count |-> 3]
        /\ AddedToProblem =
             [k \in 1 .. count |->
                <<[valid |-> TRUE, knot |-> i1 + k - 1], 3>>]
        /\ ret.call.out.meta.dt = meta_.dt
        /\ ret.call.out.meta.t0 = RAdd(meta_.t0, RMul(R(i1), meta_.dt))

\* C5: given more than one interval AddToProblem throws the length error,
\* having registered no block, appended nothing to the two lists and left the
\* output metadata as it was.
C5_MultiTimesRejected ==
  (ret.op = "AddToProblem" /\ Len(ret.times) > 1) =>
    /\ ret.call.status = "length_error"
    /\ ret.call.out = ret.before

\* two intervals handed over together with outputs that were used before
C5_Witness ==
  /\ ret.op = "AddToProblem"
  /\ Len(ret.times) = 2
  /\ Len(ret.before.parameter_blocks) = 1
  /\ meta_.n >= 4
  /\ ret.call.status = "length_error"

\* the spline an optimizer builds from a single-interval exposure: the
\* appended blocks, in the exposed order, as local knots 0, 1, 2, ... under
\* the returned t0 and dt
ExposedSpline ==
  LET b == AppendedBlocks
  IN  View([t0 |-> ret.call.out.meta.t0, dt |-> ret.call.out.meta.dt,
            n |-> Len(b)],
           [k \in 1 .. Len(b) |-> ControlPoint(AsView, b[k].knot)])
PositionAt(view, t) ==
  LET e == Evaluate(view, t, EvalPosition)
  IN  <<e.status, e.result.position>>

\* C6 as stated: for a single interval (t1 <= t2) whose knots all exist, the
\* exposed spline evaluated at t0' gives the position of the trajectory at t1.
C6_SubWindowAtT1 ==
  (AllExposedExist /\ ~RLess(ret.times[1][2], ret.times[1][1])) =>
    PositionAt(ExposedSpline, ret.call.out.meta.t0)
      = PositionAt(AsView, ret.times[1][1])

\* C6 amended: for a single interval with t1 <= t2 whose knots all exist, the
\* exposed spline evaluated at t0' gives a position, and it is the position
\* of the trajectory at t0' = t0 + i1*dt, the knot time at or before t1
\* (hence the position at t1 when t1 is a knot time).
C6_SubWindowAtKnotTime ==
  (AllExposedExist /\ ~RLess(ret.times[1][2], ret.times[1][1])) =>
    LET i1 == KnotIntervalOf(meta_, ret.times[1][1])
        knot_time == RAdd(meta_.t0, RMul(R(i1), meta_.dt))
        sub == PositionAt(ExposedSpline, ret.call.out.meta.t0)
    IN  /\ sub[1] = "ok"
        /\ sub = PositionAt(AsView, knot_time)
        /\ ret.times[1][1] = knot_time => sub = PositionAt(AsView, ret.times[1][1])

\* an exposure that starts inside a knot interval, over knots that differ
C6_Witness ==
  /\ AllExposedExist
  /\ RLess(ret.times[1][1], ret.times[1][2])
  /\ ret.call.i1 = 1
  /\ meta_.n = 6
  /\ PositionAt(ExposedSpline, ret.call.out.meta.t0)[1] = "ok"
  /\ PositionAt(ExposedSpline, ret.call.out.meta.t0)
       # PositionAt(AsView, ret.times[1][1])
  /\ PositionAt(AsView, ret.times[1][1])[1] = "ok"

FieldFlags ==
  <<<<"position", EvalPosition>>, <<"velocity", EvalVelocity>>,
    <<"acceleration", EvalAcceleration>>, <<"orientation", EvalOrientation>>,
    <<"angular_velocity", EvalAngularVelocity>>>>

\* C7: a successful Evaluate(t, flags) writes a result field exactly when the
\* field's flag is set: a requested field holds its computed value (what
\* Evaluate computes for it when everything is requested; identity and zero
\* for orientation and angular velocity), every other field is as the fresh
\* result had it; and Evaluate changes neither the knot count nor any stored
\* control point.
C7_EvaluateWritesRequested ==
  /\ [](ret.op = "Evaluate" /\ ret.out.status = "ok" =>
          LET all == Evaluate(AsView, ret.t, 31).result
          IN  /\ \A k \in 1 .. 5 :
                   LET f == FieldFlags[k][1]
                       set == (ret.flags \div FieldFlags[k][2]) % 2 = 1
                   IN  /\ set => /\ ret.out.result[f] = all[f]
                                 /\ ret.out.result[f] # NewResult[f]
                       /\ ~set => ret.out.result[f] = NewResult[f]
              /\ all.orientation = <<<<1, 1>>, <<0, 1>>, <<0, 1>>, <<0, 1>>>>
              /\ all.angular_velocity = <<<<0, 1>>, <<0, 1>>, <<0, 1>>>>
              /\ \A f \in {"position", "velocity", "acceleration"} :
                   Len(all[f]) = 3)
  /\ [][(pc = "call" /\ ret'.op = "Evaluate") =>
          (meta_' = meta_ /\ holder_' = holder_)]_vars

\* a successful Evaluate asked for the velocity alone
C7_Witness ==
  /\ ret.op = "Evaluate"
  /\ ret.out.status = "ok"
  /\ ret.flags = EvalVelocity
  /\ ret.out.result.velocity # Zero3
  /\ ret.out.result.position = Indeterminate

\* C8: position, velocity and acceleration are continuous across every
\* interior knot boundary: for 1 <= k <= n-4 what Evaluate computes from
\* window k-1 at u = 1 is what it computes from window k at u = 0, for each
\* of the three and whatever the control points.  (Every stored spline the
\* trajectory reaches is met between two calls, so it is looked at there.)
C8_ContinuousAcrossKnots ==
  pc = "call" =>
  \A k \in 1 .. (meta_.n - 4) :
    LET below == Blend(AsView, k - 1, R(1), 7)
        above == Blend(AsView, k, R(0), 7)
    IN  /\ below.position = above.position
        /\ below.velocity = above.velocity
        /\ below.acceleration = above.acceleration

\* two interior boundaries with nonzero velocity and acceleration at one
C8_Witness ==
  /\ pc = "call"
  /\ meta_.n = 6
  /\ Blend(AsView, 1, R(0), 7).velocity # Zero3
  /\ Blend(AsView, 1, R(0), 7).acceleration # Zero3
  /\ Blend(AsView, 0, R(1), 7).position = Blend(AsView, 1, R(0), 7).position

\* C9: whatever AppendKnot, control point writes and Evaluate calls came
\* before, an Evaluate that succeeds reads exactly the control points
\* i0 .. i0+3, i0 = floor((t - t0)/dt), with u = (t - t0)/dt - i0 in [0, 1),
\* all four of them stored (inside [0, n)); with t0 = 0, dt = 1, n = 6 a query
\* at 2.5 uses i0 = 2 (p2..p5) and u = 0.5, and a query at 4.5 is out of range.
C9_WindowInsideStorage ==
  ret.op = "Evaluate" =>
    /\ ret.out.status \in {"ok", "range_error"}
    /\ ret.out.status = "ok" =>
         LET i0 == KnotIntervalOf(meta_, ret.t)
             u == ret.out.u
         IN  /\ ret.out.reads = <<i0, i0 + 1, i0 + 2, i0 + 3>>
             /\ RAdd(meta_.t0, RMul(RAdd(R(i0), u), meta_.dt)) = ret.t
             /\ ~RLess(u, R(0)) /\ RLess(u, R(1))
             /\ \A k \in 1 .. 4 :
                  /\ 0 <= ret.out.reads[k]
                  /\ ret.out.reads[k] < meta_.n
                  /\ ret.out.reads[k] < Len(holder_)
    /\ (meta_.t0 = <<0, 1>> /\ meta_.dt = <<1, 1>> /\ meta_.n = 6) =>
         /\ ret.t = <<5, 2>> =>
              /\ ret.out.status = "ok"
              /\ ret.out.i0 = 2
              /\ ret.out.u = <<1, 2>>
              /\ ret.out.reads = <<2, 3, 4, 5>>
         /\ ret.t = <<9, 2>> => ret.out.status = "range_error"

\* the query at 2.5 of the six-knot example, after a control point write
C9_Witness ==
  /\ ret.op = "Evaluate"
  /\ meta_.t0 = <<0, 1>> /\ meta_.dt = <<1, 1>> /\ meta_.n = 6
  /\ ret.t = <<5, 2>>
  /\ ret.out.status = "ok"
  /\ ret.out.reads = <<2, 3, 4, 5>>
  /\ holder_[3] # holder_[4]

\* C10: every parameter block AddToProblem exposes for a single interval is a
\* stored knot (index inside [0, n)), whatever the interval and the knot
\* count, so the call reads and registers no control point that is not there.
C10_ExposedKnotsExist ==
  SingleInterval =>
    /\ ret.call.status = "ok"
    /\ \A k \in 1 .. Len(AppendedBlocks) :
         /\ AppendedBlocks[k].valid
         /\ 0 <= AppendedBlocks[k].knot
         /\ AppendedBlocks[k].knot < meta_.n
    /\ \A k \in 1 .. Len(AddedToProblem) : AddedToProblem[k][1].valid

====
